---- MODULE Spec2Model ----
(***************************************************************************)
(* A model of the constraint-satisfaction core of the crossword generator  *)
(* (src/crossword/generate.py, class CrosswordCreator).                    *)
(*                                                                         *)
(* A puzzle is a set of Variables (word slots), the overlap table derived  *)
(* from their cells, and a word list.  The creator owns `domains`, a map   *)
(* from each variable to a set of candidate words.  Every public method is *)
(* an action that a caller may invoke while no solve() is running; solve() *)
(* itself is a pipeline: enforce_node_consistency, ac3, then the recursive *)
(* backtrack, whose call stack is explicit here.                           *)
(*                                                                         *)
(* Python conventions kept: indices into words are 0-based (w[k] is        *)
(* written w[k + 1]), None / True / False / raised exceptions are the      *)
(* strings "None", "True", "False", "TypeError", "IndexError",             *)
(* "UnboundLocalError" in `ret`.  Iteration over a Python set has no       *)
(* defined order, so every such loop is a nondeterministic choice.         *)
(***************************************************************************)
EXTENDS Integers, Sequences, FiniteSets, TLC

\* ------------------------------------------------------------------ bounds

\* At most this many words in the word list of a puzzle.
MaxWords == 3

\* At most this many variables (slots) in a puzzle.
MaxVars == 3

\* tictactoe: minimax() is asked on boards with at most this many empty
\* cells.
MaxEmpty == 6

\* minesweeper: the boards have at most this many cells (height * width).
MaxCells == 8

\* ------------------------------------------------------- the puzzle model

\* The slots a puzzle draws its variables from: a 2 x 3 grid whose rows are
\* two ACROSS slots of length 3 and whose outer columns are two DOWN slots
\* of length 2.
SlotPool ==
  { [i |-> 0, j |-> 0, direction |-> "across", length |-> 3],
    [i |-> 1, j |-> 0, direction |-> "across", length |-> 3],
    [i |-> 0, j |-> 0, direction |-> "down", length |-> 2],
    [i |-> 0, j |-> 2, direction |-> "down", length |-> 2] }

\* The words a word list draws from (letters a, b; lengths 2 and 3).
WordPool ==
  { <<"a", "b">>, <<"b", "a">>, <<"a", "b", "b">>, <<"b", "a", "b">> }

VARIABLES
  variables,   \* crossword.variables: the set of Variables of the puzzle
  words,       \* crossword.words: the word list
  order,       \* the key order of the dict self.domains (fixed by __init__)
  domains,     \* self.domains: variable -> set of words
  pc,          \* "idle", "returned" (a call has just completed), or the
               \* position inside a running solve()
  stack,       \* the frames of the nested backtrack() calls, outermost first
  callArg,     \* the assignment passed to the backtrack() call being entered
  result,      \* the value a backtrack() call has just returned
  ac3Ret,      \* what the ac3() call of the running solve() returned
  lastOp,      \* the method whose call completed last
  lastArgs,    \* its arguments
  ret,         \* its return value (or the exception it raised)
  retVal,      \* the value returned, when ret only names its kind
               \* ("assignment", "variable", "list", "action", "cell")
  preDomains,  \* self.domains when that call (in a solve(): the backtracking
               \* search) started
  leftover,    \* for ac3(): the worklist at the moment ac3 returned
  board,       \* tictactoe: the board of the game being played
  game,        \* minesweeper: the Minesweeper game (height, width, mines)
  ai           \* minesweeper: the MinesweeperAI (moves_made, mines, safes,
               \* knowledge)

vars == << variables, words, order, domains, pc, stack, callArg, result,
           ac3Ret, lastOp, lastArgs, ret, retVal, preDomains, leftover,
           board, game, ai >>

\* The empty dict().
EmptyAssignment == [v \in {} |-> <<>>]

\* The None of overlaps[x, y]: the two variables share no cell.
None == <<>>

\* Variable.cells: the cells a slot covers, in word order.
Cells(v) ==
  [k \in 1..v.length |->
     << v.i + (IF v.direction = "down" THEN k - 1 ELSE 0),
        v.j + (IF v.direction = "across" THEN k - 1 ELSE 0) >>]

\* The overlap of two slots: None, or (kx, ky), 0-based, such that cell kx
\* of x is cell ky of y.
Overlap(x, y) ==
  LET shared == {p \in (1..x.length) \X (1..y.length) :
                   Cells(x)[p[1]] = Cells(y)[p[2]]}
  IN IF shared = {} THEN None
     ELSE LET p == CHOOSE q \in shared : TRUE IN <<p[1] - 1, p[2] - 1>>

\* The overlap table, computed once for all pairs of slots.
OverlapTable == [x \in SlotPool, y \in SlotPool |-> Overlap(x, y)]

\* crossword.overlaps[x, y].
overlaps(x, y) == OverlapTable[x, y]

\* crossword.neighbors(var): the variables that share a cell with var.
neighbors(var) ==
  {v \in variables : v /= var /\ overlaps(v, var) /= None}

\* All orderings (sequences without repetition) of the finite set S.
Perms(S) ==
  {s \in [1..Cardinality(S) -> S] :
     \A a, b \in 1..Cardinality(S) : a /= b => s[a] /= s[b]}

\* The elements of sequence s that belong to S, in the order of s.
RECURSIVE Restrict(_, _)
Restrict(s, S) ==
  IF s = <<>> THEN <<>>
  ELSE IF Head(s) \in S THEN <<Head(s)>> \o Restrict(Tail(s), S)
       ELSE Restrict(Tail(s), S)

\* ------------------------------------------------ enforce_node_consistency

\* A slip in line 108: the comparison is < instead of !=, so words that are too
\* long stay.
enforce_node_consistency_keeps_long(doms) ==
  [var \in DOMAIN doms |-> {w \in doms[var] : ~(Len(w) < var.length)}]

\* A slip in line 108: the comparison is == instead of !=, so the words that
\* fit are the ones removed.
enforce_node_consistency_inverted(doms) ==
  [var \in DOMAIN doms |-> {w \in doms[var] : ~(Len(w) = var.length)}]

\* The domains after enforce_node_consistency(): every word whose length
\* differs from the variable's is removed.
enforce_node_consistency(doms) ==
  [var \in DOMAIN doms |-> {w \in doms[var] : ~(Len(w) /= var.length)}]

\* ------------------------------------------------------------------ revise

\* A slip in lines 130-133: the words that found a match are the ones
\* removed.
revise_removes_matched(doms, x, y) ==
  LET ov == overlaps(x, y) IN
  IF ov = None THEN {[domains |-> doms, ret |-> "TypeError"]}
  ELSE
    LET matched ==
          {word_x \in doms[x] :
             \E word_y \in doms[y] :
               /\ ov[1] < Len(word_x)
               /\ ov[2] < Len(word_y)
               /\ word_x[ov[1] + 1] = word_y[ov[2] + 1]}
    IN IF ov[1] /= 0
       THEN {[domains |-> [doms EXCEPT ![x] = @ \ matched],
              ret |-> IF matched /= {} THEN "True" ELSE "False"]}
       ELSE {[domains |-> doms, ret |-> "False"]}

\* revise(x, y) on domains `doms`: the set of possible outcomes
\* [domains, ret].  Line 119 unpacks overlaps[x, y] and raises TypeError on
\* None.  Line 123 tests the truth of overlap_x, and 0 is false.  The loops
\* of lines 124-134 index word_x[overlap_x] and word_y[overlap_y]; an index
\* past the end of a word raises IndexError, leaving the removals made so
\* far in place.  The words of a set are visited in any order.
revise(doms, x, y) ==
  LET ov == overlaps(x, y) IN
  IF ov = None THEN {[domains |-> doms, ret |-> "TypeError"]}
  ELSE
    LET overlap_x == ov[1]
        overlap_y == ov[2]
        Dx == doms[x]
        Dy == doms[y]
        \* some word_y is too short to be indexed at overlap_y
        ShortY == \E word_y \in Dy : overlap_y >= Len(word_y)
        \* word_x is too short: the first comparison raises
        ShortX(word_x) == Dy /= {} /\ overlap_x >= Len(word_x)
        \* a word_y sets match = True
        Match(word_x) ==
          \E word_y \in Dy :
            /\ overlap_x < Len(word_x)
            /\ overlap_y < Len(word_y)
            /\ word_x[overlap_x + 1] = word_y[overlap_y + 1]
        \* the inner loop can raise / end with match / end without match
        MayRaise(word_x) == ShortX(word_x) \/ ShortY
        MayKeep(word_x) == Match(word_x)
        MayRemove(word_x) ==
          ~ShortX(word_x) /\ ~ShortY /\ ~Match(word_x)
        Removed(S) == {word_x \in S : MayRemove(word_x)}
        Done(S) == \A word_x \in S : MayKeep(word_x) \/ MayRemove(word_x)
        Normal ==
          IF Done(Dx)
          THEN {[domains |-> [doms EXCEPT ![x] = Dx \ Removed(Dx)],
                 ret |-> IF Removed(Dx) /= {} THEN "True" ELSE "False"]}
          ELSE {}
        Raised ==
          {[domains |-> [doms EXCEPT ![x] = Dx \ Removed(S)],
            ret |-> "IndexError"] :
             S \in {T \in SUBSET Dx :
                      /\ Done(T)
                      /\ \E r \in Dx \ T : MayRaise(r)}}
    IN IF overlap_x /= 0 THEN Normal \cup Raised
       ELSE {[domains |-> doms, ret |-> "False"]}

\* --------------------------------------------------------------------- ac3

\* An `arcs` argument: None, or a list of arcs.
NoArcs == [isNone |-> TRUE, list |-> <<>>]

\* `not arcs` (line 146): None and the empty list are false.
NotArcs(arcs) == arcs.isNone \/ Len(arcs.list) = 0

\* The arcs (var1, var2) appended for one var1 (lines 149-151), its
\* neighbours visited in the order of nb.
RECURSIVE ArcsFrom(_, _)
ArcsFrom(var1, nbs) ==
  IF nbs = <<>> THEN <<>>
  ELSE (IF overlaps(var1, Head(nbs)) /= None
        THEN << <<var1, Head(nbs)>> >> ELSE <<>>)
       \o ArcsFrom(var1, Tail(nbs))

\* The initial worklist (lines 147-151): for var1 in self.domains, for var2
\* in neighbors(var1).
RECURSIVE InitialQueue(_, _)
InitialQueue(vs, nb) ==
  IF vs = <<>> THEN <<>>
  ELSE ArcsFrom(Head(vs), Restrict(nb, neighbors(Head(vs))))
       \o InitialQueue(Tail(vs), nb)

\* The arcs (neighbour, x) appended after a revision of x (lines 158-160).
RECURSIVE Requeue(_, _, _)
Requeue(nbs, x, y) ==
  IF nbs = <<>> THEN <<>>
  ELSE (IF Head(nbs) /= y THEN << <<Head(nbs), x>> >> ELSE <<>>)
       \o Requeue(Tail(nbs), x, y)

\* What one pass through the loop body (lines 154-161) makes of the outcome
\* o of revise(x, y); rest is the worklist after the pop.
Ac3Body(o, x, y, rest, nb) ==
  IF o.ret \notin {"True", "False"}
  THEN [domains |-> o.domains, ret |-> o.ret, queue |-> rest]
  ELSE IF o.ret = "True"
       THEN IF Cardinality(o.domains[x]) = 0
            THEN [domains |-> o.domains, ret |-> "False", queue |-> rest]
            ELSE [domains |-> o.domains, ret |-> "True",
                  queue |-> rest \o Requeue(Restrict(nb, neighbors(x)), x, y)]
       ELSE [domains |-> o.domains, ret |-> "True", queue |-> rest]

\* ac3(arcs) on domains `doms`: the set of possible outcomes
\* [domains, ret, queue].  `queue` is bound only when `not arcs` (line 146);
\* otherwise line 153 raises UnboundLocalError.  The `return True` of line
\* 161 is inside the while loop, so the body runs at most once; with an
\* empty worklist the function falls off its end and returns None.
ac3(doms, arcs, nb) ==
  IF ~NotArcs(arcs)
  THEN {[domains |-> doms, ret |-> "UnboundLocalError", queue |-> <<>>]}
  ELSE
    LET queue == InitialQueue(order, nb) IN
    IF ~(Len(queue) > 0)
    THEN {[domains |-> doms, ret |-> "None", queue |-> queue]}
    ELSE LET x == Head(queue)[1]
             y == Head(queue)[2]
         IN {Ac3Body(o, x, y, Tail(queue), nb) : o \in revise(doms, x, y)}

\* -------------------------------------------------------------- consistent

\* consistent() without the test of lines 179-180 (distinct words).
consistent_no_distinct(assignment) ==
  LET vs == DOMAIN assignment IN
  IF \E var \in vs : var.length /= Len(assignment[var])
  THEN FALSE
  ELSE IF \E var \in vs : \E n \in neighbors(var) :
            /\ n \in vs
            /\ assignment[var][overlaps(var, n)[1] + 1]
                 /= assignment[n][overlaps(var, n)[2] + 1]
       THEN FALSE
       ELSE TRUE

\* consistent() without the test of lines 186-191 (overlapping characters).
consistent_no_overlap(assignment) ==
  LET vs == DOMAIN assignment IN
  IF Cardinality(vs) /= Cardinality({assignment[v] : v \in vs})
  THEN FALSE
  ELSE IF \E var \in vs : var.length /= Len(assignment[var])
       THEN FALSE
       ELSE TRUE

\* consistent(assignment), lines 178-193.
consistent(assignment) ==
  LET vs == DOMAIN assignment IN
  IF Cardinality(vs) /= Cardinality({assignment[v] : v \in vs})
  THEN FALSE
  ELSE IF \E var \in vs : var.length /= Len(assignment[var])
       THEN FALSE
       ELSE IF \E var \in vs : \E n \in neighbors(var) :
                 /\ n \in vs
                 /\ assignment[var][overlaps(var, n)[1] + 1]
                      /= assignment[n][overlaps(var, n)[2] + 1]
            THEN FALSE
            ELSE TRUE

\* ---------------------------------------------- select_unassigned_variable

\* A slip in line 235: the sort is by descending size (reverse=True).
select_unassigned_variable_largest(doms, assignment) ==
  LET unassign_var == Restrict(order, variables \ DOMAIN assignment)
      Size(k) == Cardinality(doms[unassign_var[k]])
      first == CHOOSE k \in 1..Len(unassign_var) :
                 /\ \A m \in 1..Len(unassign_var) : Size(k) >= Size(m)
                 /\ \A m \in 1..(k - 1) : Size(m) < Size(k)
  IN unassign_var[first]

\* select_unassigned_variable(assignment), lines 228-236: the unassigned
\* variables in dict order, stably sorted by domain size; the first one.
select_unassigned_variable(doms, assignment) ==
  LET unassign_var == Restrict(order, variables \ DOMAIN assignment)
      Size(k) == Cardinality(doms[unassign_var[k]])
      first == CHOOSE k \in 1..Len(unassign_var) :
                 /\ \A m \in 1..Len(unassign_var) : Size(k) <= Size(m)
                 /\ \A m \in 1..(k - 1) : Size(m) > Size(k)
  IN unassign_var[first]

\* ----------------------------------------------------- order_domain_values

\* order_domain_values(var, assignment) on domains `doms`: the set of
\* possible outcomes [ret, value].  Lines 216-217 are inside the loop over
\* the words of the domain, so the function returns after the first word
\* visited (any word of the set) with the list of that one word; with an
\* empty domain the loop is not entered and the function returns None.  The
\* count of lines 206-213 indexes words[overlap_x] and n_word[overlap_y] for
\* every word of every unassigned neighbour: an index past the end of a word
\* raises IndexError.
order_domain_values(doms, var, assignment) ==
  LET neighbours == neighbors(var)
      Raises(w) ==
        \E n \in neighbours :
          /\ n \notin DOMAIN assignment
          /\ doms[n] /= {}
          /\ \/ overlaps(var, n)[1] >= Len(w)
             \/ \E n_word \in doms[n] : overlaps(var, n)[2] >= Len(n_word)
  IN IF doms[var] = {}
     THEN {[ret |-> "None", value |-> <<>>]}
     ELSE {IF Raises(w)
           THEN [ret |-> "IndexError", value |-> <<>>]
           ELSE [ret |-> "list", value |-> <<w>>] : w \in doms[var]}

\* --------------------------------------------------------------- tictactoe

\* Lines 8-10.
X == "X"
O == "O"
EMPTY == "EMPTY"

\* The board is a list of three rows of three cells (lines 17-19), here a
\* function of the pair (row, column).
BoardCells == (0..2) \X (0..2)

initial_state == [c \in BoardCells |-> EMPTY]

\* player(board), lines 26-36.
player(b) ==
  LET Xcount == Cardinality({c \in BoardCells : b[c] = X})
      Ocount == Cardinality({c \in BoardCells : b[c] = O})
  IN IF Xcount <= Ocount THEN X ELSE O

\* actions(board), lines 44-50.
actions(b) == {c \in BoardCells : b[c] = EMPTY}

\* result(board, action), lines 57-65, for an action on an empty cell (on
\* any other line 61 raises); `result` names a variable of this module.
resultBoard(b, action) == [b EXCEPT ![action] = player(b)]

\* winner(board), lines 72-87: X is looked for first; rows, columns, the
\* diagonal, and board[i][~i], the anti-diagonal.
winner(b) ==
  LET Won(p) ==
        \/ \E row \in 0..2 : \A col \in 0..2 : b[<<row, col>>] = p
        \/ \E i \in 0..2 : \A x \in 0..2 : b[<<x, i>>] = p
        \/ \A i \in 0..2 : b[<<i, i>>] = p
        \/ \A i \in 0..2 : b[<<i, 2 - i>>] = p
  IN IF Won(X) THEN X ELSE IF Won(O) THEN O ELSE EMPTY

\* terminal(board), lines 94-99.
terminal(b) == winner(b) /= EMPTY \/ actions(b) = {}

\* A slip in lines 108-111: the two results are exchanged.
utility_exchanged(b) ==
  IF winner(b) = X THEN -1 ELSE IF winner(b) = O THEN 1 ELSE 0

\* utility(board), lines 107-113.
utility(b) ==
  IF winner(b) = X THEN 1 ELSE IF winner(b) = O THEN -1 ELSE 0

SetMax(S) == CHOOSE v \in S : \A w \in S : w <= v
SetMin(S) == CHOOSE v \in S : \A w \in S : v <= w

\* No move: the None of line 150 and the () of lines 122 and 135.
NoAction == <<>>

RECURSIVE max(_), min(_)

\* The value v that the inner function max(board) returns (lines 121-132):
\* the largest value of min() over the actions, starting from -5.
max(b) ==
  IF terminal(b)
  THEN utility(b)
  ELSE SetMax({-5} \cup {min(resultBoard(b, action)) : action \in actions(b)})

\* The value v that the inner function min(board) returns (lines 134-145).
min(b) ==
  IF terminal(b)
  THEN utility(b)
  ELSE SetMin({5} \cup {max(resultBoard(b, action)) : action \in actions(b)})

\* The best_move that max(board) can return with v on a board that is not
\* terminal (lines 126-132).  The loop visits the set actions(board) in any
\* order and replaces best_move on a strictly larger value only, so
\* best_move ends as the first action visited that reaches the final v: any
\* action that reaches it, and the initial () when none exceeds -5.
max_move(b) ==
  LET minval == [action \in actions(b) |-> min(resultBoard(b, action))]
      v == SetMax({-5} \cup {minval[action] : action \in actions(b)})
  IN IF v = -5
     THEN {NoAction}
     ELSE {action \in actions(b) : minval[action] = v}

\* The best_move that min(board) can return (lines 139-145).
min_move(b) ==
  LET maxval == [action \in actions(b) |-> max(resultBoard(b, action))]
      v == SetMin({5} \cup {maxval[action] : action \in actions(b)})
  IN IF v = 5
     THEN {NoAction}
     ELSE {action \in actions(b) : maxval[action] = v}

\* minimax(board), lines 147-154: the set of actions it can return.
minimax(b) ==
  IF terminal(b)
  THEN {NoAction}
  ELSE IF player(b) = X THEN max_move(b) ELSE min_move(b)

\* ------------------------------------------------------------- minesweeper

\* No game is being played.
NoGame == [height |-> 0, width |-> 0, mines |-> {}]

\* MinesweeperAI.__init__, lines 158-166 (height and width are those of the
\* game).
NoAI == [moves_made |-> {}, mines |-> {}, safes |-> {}, knowledge |-> <<>>]

\* The cells (i, j) of a board: 0 <= i < height, 0 <= j < width.
CellsOf(height, width) == (0..(height - 1)) \X (0..(width - 1))

Abs(n) == IF n < 0 THEN -n ELSE n

\* Minesweeper.nearby_mines(cell), lines 64-79.
nearby_mines(g, cell) ==
  Cardinality({c \in g.mines :
                 /\ c /= cell
                 /\ Abs(c[1] - cell[1]) <= 1
                 /\ Abs(c[2] - cell[2]) <= 1})

\* Sentence.known_mines(), lines 112-117, and known_safes(), lines 119-124.
\* The None they return otherwise is, like the empty set, false in the tests
\* of lines 254, 258, 275 and 279: the empty set stands for both.
known_mines(sentence) ==
  IF sentence.count = Cardinality(sentence.cells) THEN sentence.cells ELSE {}

known_safes(sentence) ==
  IF sentence.count = 0 THEN sentence.cells ELSE {}

\* A slip in lines 131-133: the count is not decremented.
sentence_mark_mine_keeps_count(sentence, cell) ==
  [sentence EXCEPT !.cells = @ \ {cell}]

\* Sentence.mark_mine(cell), lines 131-135.
sentence_mark_mine(sentence, cell) ==
  IF cell \in sentence.cells
  THEN [cells |-> sentence.cells \ {cell}, count |-> sentence.count - 1]
  ELSE sentence

\* Sentence.mark_safe(cell), lines 142-145.
sentence_mark_safe(sentence, cell) ==
  IF cell \in sentence.cells
  THEN [sentence EXCEPT !.cells = @ \ {cell}]
  ELSE sentence

\* MinesweeperAI.mark_mine(cell), lines 173-175, on the AI state a.
mark_mine(a, cell) ==
  [a EXCEPT !.mines = @ \cup {cell},
            !.knowledge = [k \in DOMAIN @ |-> sentence_mark_mine(@[k], cell)]]

\* MinesweeperAI.mark_safe(cell), lines 182-184.
mark_safe(a, cell) ==
  [a EXCEPT !.safes = @ \cup {cell},
            !.knowledge = [k \in DOMAIN @ |-> sentence_mark_safe(@[k], cell)]]

\* neighbour(cell), lines 231-236.
neighbour(height, width, cell) ==
  {c \in CellsOf(height, width) :
     /\ Abs(cell[1] - c[1]) <= 1
     /\ Abs(cell[2] - c[2]) <= 1
     /\ c /= cell}

\* list.remove(sentence) inside try/except ValueError (lines 246-249): the
\* first sentence equal to it goes, if there is one.
RemoveFirst(knowledge, sentence) ==
  IF \E k \in 1..Len(knowledge) : knowledge[k] = sentence
  THEN LET k == CHOOSE n \in 1..Len(knowledge) :
                  /\ knowledge[n] = sentence
                  /\ \A m \in 1..(n - 1) : knowledge[m] /= sentence
       IN SubSeq(knowledge, 1, k - 1) \o SubSeq(knowledge, k + 1, Len(knowledge))
  ELSE knowledge

RECURSIVE check_knowledge(_), CheckFrom(_, _, _), MarkEach(_, _, _)

\* check_knowledge(), lines 242-261, on the AI state a: the set of AI states
\* it can end in.  knowledge_copy is a deep copy, which the marks do not
\* touch.
check_knowledge(a) == CheckFrom(a, a.knowledge, 1)

\* The loop of line 244 from the k-th sentence of knowledge_copy on.
CheckFrom(a, knowledge_copy, k) ==
  IF k > Len(knowledge_copy)
  THEN {a}
  ELSE LET sentence == knowledge_copy[k]
           removed == IF sentence.cells = {}
                      THEN [a EXCEPT !.knowledge = RemoveFirst(@, sentence)]
                      ELSE a
           afterMines == MarkEach(removed, known_mines(sentence), "mine")
           afterSafes == UNION {MarkEach(a2, known_safes(sentence), "safe") :
                                  a2 \in afterMines}
       IN UNION {CheckFrom(a3, knowledge_copy, k + 1) : a3 \in afterSafes}

\* The loops of lines 255-257 and 259-261: the cells of the set are visited
\* in any order; each is marked and check_knowledge() is run again.
MarkEach(a, todo, kind) ==
  IF todo = {}
  THEN {a}
  ELSE UNION {UNION {MarkEach(a2, todo \ {c}, kind) :
                       a2 \in check_knowledge(IF kind = "mine"
                                              THEN mark_mine(a, c)
                                              ELSE mark_safe(a, c))} :
                c \in todo}

RECURSIVE MarkMines(_, _), MarkSafes(_, _)

\* The loops of lines 276-277 and 280-281: marks only, whose order does not
\* matter.
MarkMines(a, todo) ==
  IF todo = {}
  THEN a
  ELSE LET c == CHOOSE x \in todo : TRUE
       IN MarkMines(mark_mine(a, c), todo \ {c})

MarkSafes(a, todo) ==
  IF todo = {}
  THEN a
  ELSE LET c == CHOOSE x \in todo : TRUE
       IN MarkSafes(mark_safe(a, c), todo \ {c})

RECURSIVE InferFrom(_, _, _)

\* extra_inference(), lines 267-281, from the pair (sen1, sen2) = (i-th,
\* j-th sentence of self.knowledge) on.  The list keeps its length; the
\* marks change the sentences in it.
InferFrom(a, i, j) ==
  IF i > Len(a.knowledge)
  THEN a
  ELSE IF j > Len(a.knowledge)
       THEN InferFrom(a, i + 1, 1)
       ELSE LET sen1 == a.knowledge[i]
                sen2 == a.knowledge[j]
                new_sentence == [cells |-> sen2.cells \ sen1.cells,
                                 count |-> sen2.count - sen1.count]
            IN IF sen1.cells \subseteq sen2.cells
               THEN InferFrom(MarkSafes(MarkMines(a, known_mines(new_sentence)),
                                        known_safes(new_sentence)),
                              i, j + 1)
               ELSE InferFrom(a, i, j + 1)

extra_inference(a) == InferFrom(a, 1, 1)

\* add_knowledge(cell, count), lines 202-225, on the AI state a of a board
\* of the given height and width: the set of AI states it can end in.
add_knowledge(a, height, width, cell, count) ==
  LET moved == [a EXCEPT !.moves_made = @ \cup {cell}]
      safe == IF cell \notin moved.safes THEN mark_safe(moved, cell) ELSE moved
      close_cells == neighbour(height, width, cell)
      count_copy == count - Cardinality(close_cells \cap safe.mines)
      cells == close_cells \ (safe.mines \cup safe.safes)
      added == IF cells /= {}
               THEN [safe EXCEPT !.knowledge =
                       Append(@, [cells |-> cells, count |-> count_copy])]
               ELSE safe
  IN {extra_inference(checked) : checked \in check_knowledge(added)}

\* make_random_move(), lines 303-312: what it can return.  Each of the
\* width * height draws takes row from range(self.width) and column from
\* range(self.height); the first pair that is neither a move made nor a
\* known mine is returned, and None when every draw hits one of those.
make_random_move(a, height, width) ==
  LET draws == (0..(width - 1)) \X (0..(height - 1))
      free == draws \ (a.moves_made \cup a.mines)
  IN {[ret |-> "cell", value |-> c] : c \in free}
       \cup (IF free /= draws \/ width * height = 0
             THEN {[ret |-> "None", value |-> <<>>]}
             ELSE {})

\* ------------------------------------------------------------------- Init

\* A puzzle: some slots, a word list, and the creator built on it
\* (__init__, lines 13-17: every domain is a copy of the word list).
InitPuzzle ==
  /\ variables \in {V \in SUBSET SlotPool :
                      Cardinality(V) >= 1 /\ Cardinality(V) <= MaxVars}
  /\ words \in {W \in SUBSET WordPool :
                  Cardinality(W) >= 1 /\ Cardinality(W) <= MaxWords}
  /\ domains = [var \in variables |-> words]
  /\ pc = "idle"
  /\ stack = <<>>
  /\ callArg = EmptyAssignment
  /\ result = [isNone |-> TRUE, value |-> EmptyAssignment]
  /\ ac3Ret = "None"
  /\ lastOp = "none"
  /\ lastArgs = <<>>
  /\ ret = "None"
  /\ retVal = EmptyAssignment
  /\ preDomains = domains
  /\ leftover = <<>>
  /\ board = initial_state
  /\ game = NoGame
  /\ ai = NoAI

\* The keys of self.domains are in the iteration order of the set
\* crossword.variables: any order.
Init ==
  /\ InitPuzzle
  /\ order \in Perms(variables)

\* consistent() reads neither self.domains nor its key order: one order
\* stands for all.
InitOneOrder ==
  /\ InitPuzzle
  /\ order = CHOOSE s \in Perms(variables) : TRUE

\* --------------------------------------- the methods, called one at a time

\* The variables a solve() in progress uses, left alone by the other calls.
solveVars == << stack, callArg, result, ac3Ret >>

puzzleVars == << variables, words, order >>

\* The state of the other programs of the repository, which no method of
\* CrosswordCreator can reach.
otherVars == << board, game, ai >>

\* A caller runs enforce_node_consistency().
EnforceNodeConsistency ==
  /\ pc = "idle"
  /\ domains' = enforce_node_consistency(domains)
  /\ lastOp' = "enforce_node_consistency"
  /\ lastArgs' = <<>>
  /\ ret' = "None"
  /\ preDomains' = domains
  /\ leftover' = <<>>
  /\ retVal' = EmptyAssignment
  /\ UNCHANGED << puzzleVars, otherVars, solveVars >>
  /\ pc' = "returned"

\* A caller runs revise(x, y) on two distinct variables.
Revise ==
  /\ pc = "idle"
  /\ \E x, y \in variables :
       /\ x /= y
       /\ \E o \in revise(domains, x, y) :
            /\ domains' = o.domains
            /\ ret' = o.ret
            /\ lastArgs' = <<x, y>>
  /\ lastOp' = "revise"
  /\ preDomains' = domains
  /\ leftover' = <<>>
  /\ retVal' = EmptyAssignment
  /\ UNCHANGED << puzzleVars, otherVars, solveVars >>
  /\ pc' = "returned"

\* The arcs of a puzzle: ordered pairs of distinct variables.
AllArcs == {a \in variables \X variables : a[1] /= a[2]}

\* The lists of arcs a caller passes: the empty list and the lists of one
\* arc (ac3 reads of a non-empty list only that it is not empty).
ArcLists == {<<>>} \cup {<<a>> : a \in AllArcs}

\* A caller runs ac3() or ac3(arcs).
Ac3 ==
  /\ pc = "idle"
  /\ \E arcs \in {NoArcs} \cup {[isNone |-> FALSE, list |-> l] : l \in ArcLists} :
       \E o \in UNION {ac3(domains, arcs, nb) : nb \in Perms(variables)} :
         /\ domains' = o.domains
         /\ ret' = o.ret
         /\ leftover' = o.queue
         /\ lastArgs' = arcs
  /\ lastOp' = "ac3"
  /\ preDomains' = domains
  /\ retVal' = EmptyAssignment
  /\ UNCHANGED << puzzleVars, otherVars, solveVars >>
  /\ pc' = "returned"

\* The assignments over the puzzle: dicts from some variables to words of the
\* word list.
Assignments ==
  UNION {[vs -> words] : vs \in SUBSET variables}

\* A caller runs consistent(assignment).
Consistent ==
  /\ pc = "idle"
  /\ \E assignment \in Assignments :
       /\ ret' = IF consistent(assignment) THEN "True" ELSE "False"
       /\ lastArgs' = assignment
  /\ lastOp' = "consistent"
  /\ preDomains' = domains
  /\ leftover' = <<>>
  /\ retVal' = EmptyAssignment
  /\ UNCHANGED << puzzleVars, otherVars, domains, solveVars >>
  /\ pc' = "returned"

\* A caller runs select_unassigned_variable(assignment); with every variable
\* assigned, sorted_l is empty and line 236 raises IndexError.
SelectUnassignedVariable ==
  /\ pc = "idle"
  /\ \E assignment \in Assignments :
       /\ lastArgs' = assignment
       /\ IF DOMAIN assignment = variables
          THEN /\ ret' = "IndexError"
               /\ retVal' = EmptyAssignment
          ELSE /\ ret' = "variable"
               /\ retVal' = select_unassigned_variable(domains, assignment)
  /\ lastOp' = "select_unassigned_variable"
  /\ preDomains' = domains
  /\ leftover' = <<>>
  /\ UNCHANGED << puzzleVars, otherVars, domains, solveVars >>
  /\ pc' = "returned"

\* A caller runs order_domain_values(var, assignment) for a variable that the
\* assignment leaves unassigned.
OrderDomainValues ==
  /\ pc = "idle"
  /\ \E var \in variables :
       \E assignment \in Assignments :
         /\ var \notin DOMAIN assignment
         /\ \E o \in order_domain_values(domains, var, assignment) :
              /\ ret' = o.ret
              /\ retVal' = o.value
              /\ lastArgs' = <<var, assignment>>
  /\ lastOp' = "order_domain_values"
  /\ preDomains' = domains
  /\ leftover' = <<>>
  /\ UNCHANGED << puzzleVars, otherVars, domains, solveVars >>
  /\ pc' = "returned"

\* ------------------------------------------------------------------ solve

\* No completed call is on record.
ClearLast(op) ==
  /\ lastOp' = op
  /\ lastArgs' = <<>>
  /\ ret' = "None"
  /\ retVal' = EmptyAssignment
  /\ leftover' = <<>>

\* solve(), line 93: self.enforce_node_consistency().
SolveEnforce ==
  /\ pc = "idle"
  /\ domains' = enforce_node_consistency(domains)
  /\ pc' = "solve_ac3"
  /\ ClearLast("solve_running")
  /\ preDomains' = domains'
  /\ stack' = <<>>
  /\ callArg' = EmptyAssignment
  /\ result' = [isNone |-> TRUE, value |-> EmptyAssignment]
  /\ ac3Ret' = "None"
  /\ UNCHANGED << puzzleVars, otherVars >>

\* solve(), line 94: self.ac3(); the value it returns is dropped, and its
\* worklist is a local that ends with the call.  Line 95 then calls
\* self.backtrack(dict()); preDomains keeps the domains the search starts
\* with.
SolveAc3 ==
  /\ pc = "solve_ac3"
  /\ \E o \in UNION {ac3(domains, NoArcs, nb) : nb \in Perms(variables)} :
       /\ domains' = o.domains
       /\ ac3Ret' = o.ret
       /\ preDomains' = o.domains
       /\ IF o.ret \in {"True", "False", "None"}
          THEN /\ pc' = "call"
               /\ UNCHANGED << lastOp, ret >>
          ELSE \* an exception raised inside ac3 ends solve()
               /\ pc' = "returned"
               /\ lastOp' = "solve"
               /\ ret' = o.ret
  /\ callArg' = EmptyAssignment
  /\ UNCHANGED << puzzleVars, otherVars, stack, result, lastArgs, retVal, leftover >>

\* A slip in line 245: an off-by-one in the test of completeness.
BacktrackDone_off_by_one(assignment) ==
  Cardinality(DOMAIN assignment) >= Cardinality(DOMAIN domains) - 1

\* Line 245: len(assignment) == len(self.domains).
BacktrackDone(assignment) ==
  Cardinality(DOMAIN assignment) = Cardinality(DOMAIN domains)

NoVariable == [i |-> 0, j |-> 0, direction |-> "none", length |-> 0]

\* backtrack(assignment) is entered (lines 245-250): a complete assignment is
\* returned at once; otherwise a variable is selected and the loop over its
\* domain starts.
BacktrackCall ==
  /\ pc = "call"
  /\ IF BacktrackDone(callArg)
     THEN /\ stack' = Append(stack, [assignment |-> callArg,
                                     var |-> NoVariable, todo |-> {}])
          /\ result' = [isNone |-> FALSE, value |-> callArg]
          /\ pc' = "return"
     ELSE /\ stack' =
               Append(stack,
                 [assignment |-> callArg,
                  var |-> select_unassigned_variable(domains, callArg),
                  todo |-> domains[select_unassigned_variable(domains, callArg)]])
          /\ pc' = "loop"
          /\ UNCHANGED result
  /\ UNCHANGED << puzzleVars, otherVars, domains, callArg, ac3Ret, lastOp, lastArgs, ret,
                  retVal, preDomains, leftover >>

\* A slip in lines 251-252: the copy is made and the new value is never put
\* into it.
Extend_forgets_value(assignment, var, value) ==
  assignment

\* copy_assign of lines 251-252.
Extend(assignment, var, value) ==
  [v \in DOMAIN assignment \cup {var} |->
     IF v = var THEN value ELSE assignment[v]]

\* One pass of the loop of lines 250-254 whose copy_assign is consistent: the
\* recursive call is made.
BacktrackTry ==
  /\ pc = "loop"
  /\ LET top == stack[Len(stack)] IN
     \E value \in top.todo :
       LET copy_assign == Extend(top.assignment, top.var, value) IN
       /\ consistent(copy_assign)
       /\ stack' = [stack EXCEPT ![Len(stack)].todo = top.todo \ {value}]
       /\ callArg' = copy_assign
       /\ pc' = "call"
  /\ UNCHANGED << puzzleVars, otherVars, domains, result, ac3Ret, lastOp, lastArgs, ret,
                  retVal, preDomains, leftover >>

\* A slip in the loop of lines 250-254: the value that failed is pruned from
\* self.domains[var].
BacktrackSkip_prunes_domain ==
  /\ pc = "loop"
  /\ LET top == stack[Len(stack)] IN
     \E value \in top.todo :
       LET copy_assign == Extend(top.assignment, top.var, value) IN
       /\ ~consistent(copy_assign)
       /\ stack' = [stack EXCEPT ![Len(stack)].todo = top.todo \ {value}]
       /\ domains' = [domains EXCEPT ![top.var] = @ \ {value}]
  /\ UNCHANGED << puzzleVars, otherVars, pc, callArg, result, ac3Ret, lastOp,
                  lastArgs, ret, retVal, preDomains, leftover >>

\* One pass of the loop whose copy_assign is not consistent: next value.
BacktrackSkip ==
  /\ pc = "loop"
  /\ LET top == stack[Len(stack)] IN
     \E value \in top.todo :
       LET copy_assign == Extend(top.assignment, top.var, value) IN
       /\ ~consistent(copy_assign)
       /\ stack' = [stack EXCEPT ![Len(stack)].todo = top.todo \ {value}]
  /\ UNCHANGED << puzzleVars, otherVars, domains, pc, callArg, result, ac3Ret, lastOp,
                  lastArgs, ret, retVal, preDomains, leftover >>

\* A slip in line 257: the partial assignment is returned instead of None.
BacktrackFail_returns_assignment ==
  /\ pc = "loop"
  /\ stack[Len(stack)].todo = {}
  /\ result' = [isNone |-> FALSE, value |-> stack[Len(stack)].assignment]
  /\ pc' = "return"
  /\ UNCHANGED << puzzleVars, otherVars, domains, stack, callArg, ac3Ret, lastOp,
                  lastArgs, ret, retVal, preDomains, leftover >>

\* Line 257: the loop is over, return None.
BacktrackFail ==
  /\ pc = "loop"
  /\ stack[Len(stack)].todo = {}
  /\ result' = [isNone |-> TRUE, value |-> EmptyAssignment]
  /\ pc' = "return"
  /\ UNCHANGED << puzzleVars, otherVars, domains, stack, callArg, ac3Ret, lastOp,
                  lastArgs, ret, retVal, preDomains, leftover >>

\* A nested backtrack() call returns to the loop of its caller (lines
\* 254-256): a result that is not None is returned further, None resumes the
\* loop.
BacktrackReturn ==
  /\ pc = "return"
  /\ Len(stack) > 1
  /\ stack' = SubSeq(stack, 1, Len(stack) - 1)
  /\ pc' = IF result.isNone THEN "loop" ELSE "return"
  /\ UNCHANGED << puzzleVars, otherVars, domains, callArg, result, ac3Ret, lastOp,
                  lastArgs, ret, retVal, preDomains, leftover >>

\* The outermost backtrack() call returns and solve() returns its value
\* (line 95).
SolveReturn ==
  /\ pc = "return"
  /\ Len(stack) = 1
  /\ stack' = <<>>
  /\ pc' = "returned"
  /\ lastOp' = "solve"
  /\ ret' = IF result.isNone THEN "None" ELSE "assignment"
  /\ retVal' = result.value
  /\ UNCHANGED << puzzleVars, otherVars, domains, callArg, result, ac3Ret, lastArgs,
                  preDomains, leftover >>

\* The caller has taken the result of the call that completed and is ready
\* to make the next one.
Continue ==
  /\ pc = "returned"
  /\ pc' = "idle"
  /\ ClearLast("none")
  /\ preDomains' = domains
  /\ UNCHANGED << puzzleVars, otherVars, domains, solveVars >>

Next ==
  \/ Continue
  \/ EnforceNodeConsistency
  \/ Revise
  \/ Ac3
  \/ SolveEnforce
  \/ SolveAc3
  \/ BacktrackCall
  \/ BacktrackTry
  \/ BacktrackSkip
  \/ BacktrackFail
  \/ BacktrackReturn
  \/ SolveReturn

Spec == Init /\ [][Next]_vars

\* The calls of consistent(), before and after node consistency.
NextConsistent ==
  \/ Continue
  \/ EnforceNodeConsistency
  \/ Consistent

SpecConsistent == InitOneOrder /\ [][NextConsistent]_vars

\* solve(), lines 93-94, in one step: node consistency, then ac3 on the
\* domains it leaves; line 95 then calls self.backtrack(dict()).
SolvePreprocess ==
  /\ pc = "idle"
  /\ \E o \in UNION {ac3(enforce_node_consistency(domains), NoArcs, nb) :
                       nb \in Perms(variables)} :
       /\ domains' = o.domains
       /\ ac3Ret' = o.ret
       /\ preDomains' = o.domains
       /\ IF o.ret \in {"True", "False", "None"}
          THEN /\ pc' = "call"
               /\ lastOp' = "solve_running"
               /\ ret' = "None"
          ELSE /\ pc' = "returned"
               /\ lastOp' = "solve"
               /\ ret' = o.ret
  /\ lastArgs' = <<>>
  /\ retVal' = EmptyAssignment
  /\ leftover' = <<>>
  /\ stack' = <<>>
  /\ callArg' = EmptyAssignment
  /\ result' = [isNone |-> TRUE, value |-> EmptyAssignment]
  /\ UNCHANGED << puzzleVars, otherVars >>

\* The steps of a running backtrack(dict()) call, line 95.  Python runs the
\* call without interruption: a step that is enabled is taken.
SearchStep ==
  \/ BacktrackCall
  \/ BacktrackTry
  \/ BacktrackSkip
  \/ BacktrackFail
  \/ BacktrackReturn
  \/ SolveReturn

\* The calls of solve() alone, each search run to its end.
NextSolve ==
  \/ Continue
  \/ SolvePreprocess
  \/ SearchStep

SpecSolveFair == Init /\ [][NextSolve]_vars /\ WF_vars(SearchStep)

\* The calls of select_unassigned_variable(), on the domains that node
\* consistency and revisions leave.
NextSelect ==
  \/ Continue
  \/ EnforceNodeConsistency
  \/ Revise
  \/ SelectUnassignedVariable

SpecSelect == Init /\ [][NextSelect]_vars

\* The calls of order_domain_values(), which does not read the key order of
\* self.domains.
NextOrderValues ==
  \/ Continue
  \/ EnforceNodeConsistency
  \/ OrderDomainValues

SpecOrderValues == InitOneOrder /\ [][NextOrderValues]_vars

\* ---------------------------------------------------------- tictactoe game

\* No crossword is being made.
NoPuzzle ==
  /\ variables = {}
  /\ words = {}
  /\ order = <<>>
  /\ domains = <<>>
  /\ preDomains = <<>>
  /\ stack = <<>>
  /\ callArg = EmptyAssignment
  /\ result = [isNone |-> TRUE, value |-> EmptyAssignment]
  /\ ac3Ret = "None"
  /\ leftover = <<>>

NoCall ==
  /\ pc = "idle"
  /\ lastOp = "none"
  /\ lastArgs = <<>>
  /\ ret = "None"
  /\ retVal = EmptyAssignment

\* What no function of tictactoe.py or minesweeper.py can reach.
crosswordVars == << puzzleVars, domains, solveVars, preDomains, leftover >>

\* A game starts on initial_state().
InitTicTacToe ==
  /\ board = initial_state
  /\ game = NoGame
  /\ ai = NoAI
  /\ NoPuzzle
  /\ NoCall

\* The player whose turn it is puts a mark on an empty cell of a board that
\* is not terminal: board = result(board, action).
Move ==
  /\ pc = "idle"
  /\ ~terminal(board)
  /\ \E action \in actions(board) : board' = resultBoard(board, action)
  /\ UNCHANGED << crosswordVars, game, ai, pc, lastOp, lastArgs, ret, retVal >>

\* A caller runs minimax(board).
Minimax ==
  /\ pc = "idle"
  /\ Cardinality(actions(board)) <= MaxEmpty
  /\ \E action \in minimax(board) :
       /\ retVal' = action
       /\ ret' = IF action = NoAction THEN "None" ELSE "action"
  /\ lastOp' = "minimax"
  /\ lastArgs' = <<>>
  /\ pc' = "returned"
  /\ UNCHANGED << crosswordVars, board, game, ai >>

NextTicTacToe ==
  \/ Continue
  \/ Move
  \/ Minimax

SpecTicTacToe == InitTicTacToe /\ [][NextTicTacToe]_vars

\* -------------------------------------------------------- minesweeper game

\* The boards: every height and width of at least 1, square or not.
Shapes ==
  {hw \in (1..MaxCells) \X (1..MaxCells) : hw[1] * hw[2] <= MaxCells}

\* Minesweeper(height, width, mines) puts the mines on any cells (lines
\* 27-32); MinesweeperAI(height, width) starts with nothing known.
InitMinesweeper ==
  /\ game \in UNION {{[height |-> hw[1], width |-> hw[2], mines |-> m] :
                        m \in SUBSET CellsOf(hw[1], hw[2])} : hw \in Shapes}
  /\ ai = NoAI
  /\ board = initial_state
  /\ NoPuzzle
  /\ NoCall

\* A cell that is no mine is revealed, each cell once as in a game, and the
\* AI is told the number of mines around it:
\* ai.add_knowledge(cell, game.nearby_mines(cell)).
AddKnowledge ==
  /\ pc = "idle"
  /\ \E cell \in CellsOf(game.height, game.width) \ game.mines :
       /\ cell \notin ai.moves_made
       /\ ai' \in add_knowledge(ai, game.height, game.width, cell,
                                nearby_mines(game, cell))
  /\ UNCHANGED << crosswordVars, board, game, pc, lastOp, lastArgs, ret,
                  retVal >>

\* A caller runs ai.make_random_move().
MakeRandomMove ==
  /\ pc = "idle"
  /\ \E o \in make_random_move(ai, game.height, game.width) :
       /\ ret' = o.ret
       /\ retVal' = o.value
  /\ lastOp' = "make_random_move"
  /\ lastArgs' = <<>>
  /\ pc' = "returned"
  /\ UNCHANGED << crosswordVars, board, game, ai >>

NextMinesweeper ==
  \/ Continue
  \/ AddKnowledge
  \/ MakeRandomMove

SpecMinesweeper == InitMinesweeper /\ [][NextMinesweeper]_vars

\* ============================================================ the claims

\* The three conditions of a consistent assignment, as the specification
\* states them.
AllDistinct(a) ==
  \A u, v \in DOMAIN a : u /= v => a[u] /= a[v]

LengthsFit(a) ==
  \A v \in DOMAIN a : Len(a[v]) = v.length

OverlapsAgree(a) ==
  \A u, v \in DOMAIN a :
    (u /= v /\ Overlap(u, v) /= None) =>
      a[u][Overlap(u, v)[1] + 1] = a[v][Overlap(u, v)[2] + 1]

\* The complete consistent assignments of the puzzle over the word list.
Solutions ==
  {a \in [variables -> words] :
     AllDistinct(a) /\ LengthsFit(a) /\ OverlapsAgree(a)}

\* Some variable of the puzzle has two neighbours.
HasHub ==
  \E v \in variables :
    Cardinality({u \in variables : u /= v /\ Overlap(u, v) /= None}) >= 2

\* C1: a value other than None returned by solve() assigns one word of the
\* word list to every variable, the words are pairwise distinct, each has the
\* length of its variable, and neighbours agree at their overlap.
C1_SolveReturnsSolution ==
  (lastOp = "solve" /\ ret = "assignment") =>
    /\ DOMAIN retVal = variables
    /\ \A v \in variables : retVal[v] \in words
    /\ AllDistinct(retVal)
    /\ LengthsFit(retVal)
    /\ OverlapsAgree(retVal)

\* solve() has returned an assignment for a puzzle of three variables, one of
\* which overlaps the two others.
C1_Witness ==
  /\ lastOp = "solve"
  /\ ret = "assignment"
  /\ Cardinality(variables) = 3
  /\ HasHub

\* C2: whenever the puzzle has a complete consistent assignment over its word
\* list, a solve() that returns returns an assignment, not None.
C2_SolveComplete ==
  (lastOp = "solve" /\ Solutions /= {}) => ret = "assignment"

\* solve() has returned an assignment for a puzzle with overlapping variables
\* in which some words of the right length belong to no solution.
C2_Witness ==
  /\ lastOp = "solve"
  /\ ret = "assignment"
  /\ Solutions /= {}
  /\ \E v \in variables :
       /\ \E u \in variables : u /= v /\ Overlap(u, v) /= None
       /\ \E w \in words :
            Len(w) = v.length /\ \A a \in Solutions : a[v] /= w

\* C3: when the puzzle has no complete consistent assignment, solve() ends by
\* returning None: no exception, no assignment.
C3_UnsatReturnsNone ==
  (lastOp = "solve" /\ Solutions = {}) => ret = "None"

\* solve() has returned None for an unsatisfiable puzzle in which every
\* variable has a word of its length and two variables overlap.
C3_Witness ==
  /\ lastOp = "solve"
  /\ ret = "None"
  /\ Solutions = {}
  /\ \A v \in variables : \E w \in words : Len(w) = v.length
  /\ \E u, v \in variables : u /= v /\ Overlap(u, v) /= None

\* Every word of domain(x) has a word of domain(y) that agrees with it at the
\* overlap, for all neighbouring x, y.
ArcConsistent(doms) ==
  \A x, y \in variables :
    (x /= y /\ Overlap(x, y) /= None) =>
      \A w \in doms[x] : \E w2 \in doms[y] :
        /\ Overlap(x, y)[1] < Len(w)
        /\ Overlap(x, y)[2] < Len(w2)
        /\ w[Overlap(x, y)[1] + 1] = w2[Overlap(x, y)[2] + 1]

NodeConsistent(doms) ==
  \A v \in variables : \A w \in doms[v] : Len(w) = v.length

\* C4: when ac3(), called with no arcs (on node-consistent domains), returns
\* True, the domains are arc consistent.
C4_Ac3Sound ==
  (/\ lastOp = "ac3"
   /\ lastArgs.isNone
   /\ NodeConsistent(preDomains)
   /\ ret = "True") => ArcConsistent(domains)

\* C5: ac3(), called with no arcs, returns True when no domain is empty at its
\* return and False when some domain is.
C5_Ac3ReportsEmptiness ==
  (lastOp = "ac3" /\ lastArgs.isNone) =>
    ret = (IF \A v \in variables : domains[v] /= {} THEN "True" ELSE "False")

\* C6: revise(x, y) on neighbours x, y (node-consistent domains) leaves in
\* domain(x) exactly the words that agree with some word of domain(y) at the
\* overlap, leaves the other domains alone, and returns True exactly when a
\* word was removed.
C6_ReviseExact ==
  (/\ lastOp = "revise"
   /\ Overlap(lastArgs[1], lastArgs[2]) /= None
   /\ NodeConsistent(preDomains)) =>
    LET x == lastArgs[1]
        y == lastArgs[2]
        kept == {w \in preDomains[x] : \E w2 \in preDomains[y] :
                   w[Overlap(x, y)[1] + 1] = w2[Overlap(x, y)[2] + 1]}
    IN /\ domains = [preDomains EXCEPT ![x] = kept]
       /\ ret = (IF kept /= preDomains[x] THEN "True" ELSE "False")

\* C7: revise(x, y) on variables that share no cell removes nothing and
\* returns False.
C7_ReviseNoOverlap ==
  (lastOp = "revise" /\ Overlap(lastArgs[1], lastArgs[2]) = None) =>
    (ret = "False" /\ domains = preDomains)

\* C8: ac3(arcs) with a non-empty list of arcs revises the arcs of the list
\* and returns True or False.
C8_Ac3ExplicitArcs ==
  (lastOp = "ac3" /\ ~lastArgs.isNone /\ Len(lastArgs.list) > 0) =>
    ret \in {"True", "False"}

\* C9: after enforce_node_consistency(), the domain of every variable is the
\* set of the words of its previous domain that have the variable's length.
C9_NodeConsistencyExact ==
  lastOp = "enforce_node_consistency" =>
    \A v \in variables :
      /\ domains[v] \subseteq preDomains[v]
      /\ \A w \in domains[v] : Len(w) = v.length
      /\ \A w \in preDomains[v] : Len(w) = v.length => w \in domains[v]

\* enforce_node_consistency() has removed a word from a domain and kept
\* another one in it.
C9_Witness ==
  /\ lastOp = "enforce_node_consistency"
  /\ \E v \in variables :
       /\ domains[v] /= preDomains[v]
       /\ domains[v] /= {}

\* C10: consistent(assignment) returns True exactly when the assigned words
\* are pairwise distinct, have the lengths of their variables and agree at
\* the overlaps of assigned neighbours; the domains are as before.
C10_ConsistentExact ==
  lastOp = "consistent" =>
    /\ (ret = "True") <=>
         (AllDistinct(lastArgs) /\ LengthsFit(lastArgs) /\ OverlapsAgree(lastArgs))
    /\ domains = preDomains

\* consistent() has returned True for a partial assignment of two
\* neighbours, and the call left a variable unassigned.
C10_Witness ==
  /\ lastOp = "consistent"
  /\ ret = "True"
  /\ DOMAIN lastArgs /= variables
  /\ \E u, v \in DOMAIN lastArgs : u /= v /\ Overlap(u, v) /= None

\* The number of words that the word w of var rules out in the domains of
\* the neighbours of var that the assignment leaves unassigned.
RulesOut(var, assignment, w) ==
  Cardinality({p \in (variables \ DOMAIN assignment) \X words :
                 /\ p[1] /= var
                 /\ Overlap(var, p[1]) /= None
                 /\ p[2] \in domains[p[1]]
                 /\ w[Overlap(var, p[1])[1] + 1]
                      /= p[2][Overlap(var, p[1])[2] + 1]})

\* C11: order_domain_values(var, assignment), on node-consistent domains,
\* returns a list that holds every word of domain(var) once, in ascending
\* order of the number of neighbouring words each rules out.
C11_OrderDomainValues ==
  (lastOp = "order_domain_values" /\ NodeConsistent(domains)) =>
    /\ ret = "list"
    /\ Len(retVal) = Cardinality(domains[lastArgs[1]])
    /\ {retVal[k] : k \in 1..Len(retVal)} = domains[lastArgs[1]]
    /\ \A k, m \in 1..Len(retVal) :
         k < m => RulesOut(lastArgs[1], lastArgs[2], retVal[k])
                    <= RulesOut(lastArgs[1], lastArgs[2], retVal[m])

\* C12: select_unassigned_variable(assignment), when the assignment leaves a
\* variable unassigned, returns an unassigned variable whose domain is no
\* larger than that of any other unassigned variable.
C12_SelectMinimumRemaining ==
  (lastOp = "select_unassigned_variable" /\ DOMAIN lastArgs /= variables) =>
    /\ ret = "variable"
    /\ retVal \in variables \ DOMAIN lastArgs
    /\ \A v \in variables \ DOMAIN lastArgs :
         Cardinality(domains[retVal]) <= Cardinality(domains[v])

\* select_unassigned_variable() has returned a variable that is not the first
\* unassigned key of self.domains, another unassigned variable having a
\* larger domain, while a third variable was assigned.
C12_Witness ==
  /\ lastOp = "select_unassigned_variable"
  /\ ret = "variable"
  /\ DOMAIN lastArgs /= {}
  /\ retVal /= Restrict(order, variables \ DOMAIN lastArgs)[1]
  /\ \E v \in variables \ DOMAIN lastArgs :
       Cardinality(domains[v]) > Cardinality(domains[retVal])

\* The number of neighbours of v.
Degree(v) ==
  Cardinality({u \in variables : u /= v /\ Overlap(u, v) /= None})

\* C13: among the unassigned variables that tie for the smallest domain,
\* select_unassigned_variable() returns one of the highest degree.
C13_SelectHighestDegree ==
  (lastOp = "select_unassigned_variable" /\ ret = "variable") =>
    \A v \in variables \ DOMAIN lastArgs :
      Cardinality(domains[v]) = Cardinality(domains[retVal]) =>
        Degree(retVal) >= Degree(v)

\* C16: ac3 reports success only with an empty worklist: every arc that was
\* put on the worklist has been dequeued and revised when True is returned.
C16_Ac3DrainsWorklist ==
  (lastOp = "ac3" /\ ret = "True") => leftover = <<>>

\* A backtrack() call is running.
Searching == pc \in {"call", "loop", "return"}

\* C17: no step of the search writes self.domains, and no step changes the
\* assignment of a backtrack() call that stays on the call stack.
C17_BacktrackFrame ==
  [][(Searching /\ Searching') =>
       /\ domains' = domains
       /\ \A k \in 1..Len(stack) :
            k <= Len(stack') => stack'[k].assignment = stack[k].assignment]_vars

\* A nested call has returned None to a caller that tries its next value, two
\* calls deep, and the domains are those the search started with.
C17_Witness ==
  /\ pc = "loop"
  /\ Len(stack) >= 2
  /\ result.isNone
  /\ stack[Len(stack)].todo /= domains[stack[Len(stack)].var]
  /\ domains = preDomains

\* C18: when a domain is empty after preprocessing, in particular when ac3
\* returned False, solve() returns None.
C18_EmptyDomainReturnsNone ==
  (/\ lastOp = "solve"
   /\ \/ ac3Ret = "False"
      \/ \E v \in variables : preDomains[v] = {}) =>
    ret = "None"

\* solve() has returned after ac3 returned False, with one domain empty and
\* another one not.
C18_Witness ==
  /\ lastOp = "solve"
  /\ ac3Ret = "False"
  /\ ret = "None"
  /\ \E v \in variables : preDomains[v] = {}
  /\ \E v \in variables : preDomains[v] /= {}

\* The k-th backtrack() call on the stack has an assignment of k - 1
\* variables, the call being made has one more than its caller, and the stack
\* is at most the number of variables plus one deep.
DepthBounded ==
  /\ Len(stack) <= Cardinality(variables) + 1
  /\ \A k \in 1..Len(stack) :
       Cardinality(DOMAIN stack[k].assignment) = k - 1
  /\ pc = "call" => Cardinality(DOMAIN callArg) = Len(stack)

\* C19: every recursive backtrack() call has an assignment of exactly one
\* more variable than its caller, the nesting is at most the number of
\* variables plus one deep, and the search that solve() has started returns.
C19_SolveTerminates ==
  /\ [](Searching => DepthBounded)
  /\ (pc = "call") ~> (pc = "returned" /\ lastOp = "solve")

\* The search is as deep as it can be: one call per variable and the call
\* that finds the assignment complete.
C19_Witness ==
  /\ pc = "return"
  /\ Cardinality(variables) >= 2
  /\ Len(stack) = Cardinality(variables) + 1

\* The eight lines of three cells.
Lines ==
  {{<<i, j>> : j \in 0..2} : i \in 0..2}
    \cup {{<<i, j>> : i \in 0..2} : j \in 0..2}
    \cup {{<<0, 0>>, <<1, 1>>, <<2, 2>>}, {<<0, 2>>, <<1, 1>>, <<2, 0>>}}

Wins(b, p) == \E L \in Lines : \A c \in L : b[c] = p

Empties(b) == {c \in BoardCells : b[c] = EMPTY}

GameOver(b) == Wins(b, X) \/ Wins(b, O) \/ Empties(b) = {}

\* X moves first and the players alternate.
ToMove(b) ==
  IF Cardinality(Empties(b)) % 2 = 1 THEN X ELSE O

Place(b, c, p) == [b EXCEPT ![c] = p]

RECURSIVE GameValue(_)

\* The value of the board under best play of both sides: 1 when X wins, -1
\* when O wins, 0 for a draw.
GameValue(b) ==
  IF Wins(b, X) THEN 1
  ELSE IF Wins(b, O) THEN -1
  ELSE IF Empties(b) = {} THEN 0
  ELSE IF ToMove(b) = X
       THEN SetMax({GameValue(Place(b, c, X)) : c \in Empties(b)})
       ELSE SetMin({GameValue(Place(b, c, O)) : c \in Empties(b)})

\* The value of the board after the player to move has marked cell c.
ValueAfter(b) ==
  [c \in Empties(b) |-> GameValue(Place(b, c, ToMove(b)))]

\* C14: on a board reached by alternating legal moves, minimax(board) returns
\* None when the game is over, and otherwise an empty cell that is optimal
\* for the player to move: under best play of both sides no other move leads
\* to a better value for that player.
C14_MinimaxOptimal ==
  lastOp = "minimax" =>
    IF GameOver(board)
    THEN ret = "None"
    ELSE /\ ret = "action"
         /\ retVal \in Empties(board)
         /\ LET after == ValueAfter(board) IN
            \A c \in Empties(board) :
              IF ToMove(board) = X
              THEN after[c] <= after[retVal]
              ELSE after[retVal] <= after[c]

\* minimax() has returned an action for O on a board where O also has a
\* move that loses a game it can draw or win.
C14_Witness ==
  /\ lastOp = "minimax"
  /\ ret = "action"
  /\ ToMove(board) = O
  /\ \E c \in Empties(board) : ValueAfter(board)[c] > ValueAfter(board)[retVal]

\* C15: on a board of any height and width, make_random_move() returns None
\* or a cell (i, j) of the board, 0 <= i < height and 0 <= j < width, that is
\* neither a move made nor a known mine.
C15_RandomMoveOnBoard ==
  (lastOp = "make_random_move" /\ ret /= "None") =>
    /\ retVal \in CellsOf(game.height, game.width)
    /\ retVal \notin ai.moves_made
    /\ retVal \notin ai.mines

\* C20: after any sequence of add_knowledge() calls that report the true
\* count of a cell that is no mine, every cell of ai.safes is no mine, every
\* cell of ai.mines is a mine, and every sentence of ai.knowledge is true:
\* its count is the number of mines among its cells.
C20_KnowledgeSound ==
  /\ ai.safes \cap game.mines = {}
  /\ ai.mines \subseteq game.mines
  /\ \A k \in 1..Len(ai.knowledge) :
       Cardinality(ai.knowledge[k].cells \cap game.mines)
         = ai.knowledge[k].count

\* After several cells were revealed the AI has inferred a mine, knows a
\* safe cell that was not revealed, and still holds a sentence of more than
\* one cell.
C20_Witness ==
  /\ Cardinality(ai.moves_made) >= 2
  /\ ai.mines /= {}
  /\ ai.safes \ ai.moves_made /= {}
  /\ \E k \in 1..Len(ai.knowledge) : Cardinality(ai.knowledge[k].cells) >= 2

\* Every complete consistent assignment over the word list still finds the
\* word of each variable in its domain.
SolutionsKept ==
  \A a \in Solutions : \A v \in variables : a[v] \in domains[v]

\* C21: preprocessing never discards a solution.  After
\* enforce_node_consistency() and after every revise() and ac3() step, the
\* word that a complete consistent assignment gives a variable is still in
\* its domain, and no step puts a word into a domain: domains only shrink,
\* and only by words of no solution.
C21_PreprocessingKeepsSolutions ==
  /\ [](SolutionsKept)
  /\ [][\A v \in variables : domains'[v] \subseteq domains[v]]_vars

\* revise() has removed a word from the domain of a variable of a puzzle
\* that has a solution, starting from node-consistent domains.
C21_Witness ==
  /\ lastOp = "revise"
  /\ ret = "True"
  /\ domains /= preDomains
  /\ NodeConsistent(preDomains)
  /\ Solutions /= {}

====
